---- MODULE Spec2Model ----
(***************************************************************************)
(* Sentence-level scorers of SimulEval (simuleval/scorer/scorer.py):      *)
(* the instance store of a shard, text quality/latency aggregation,       *)
(* speech realignment, replay from instances.log and compute_score.       *)
(***************************************************************************)
EXTENDS Integers, Sequences, FiniteSets, TLC

VARIABLES
    pc,          \* position of the run (per specification)
    dataloader,  \* the corpus: a sequence of [source_length, target] entries
    scorer,      \* the live scorer object (start_index, end_index, instances)
    before,      \* the instance store as it was when the last reset() or score() began
    lastOp,      \* the operation that acted last
    warnings,    \* what the last operation sent to logger.warning / logger.warn
    evals,       \* sentence_level_eval() invocations of the last operation, per index
    result,      \* outcome of the last score() / get_latency_score() of the live scorer
    log,         \* the lines of instances.log
    replay,      \* the scorer rebuilt by from_logdir
    result2,     \* outcome of the last call on the rebuilt scorer
    scoresFile,  \* the file 'scores' of the log directory
    printed,     \* what compute_score printed
    env          \* the world around a speech scorer: wavs/, ust_common, mfa, align/

vars == <<pc, dataloader, scorer, before, lastOp, warnings, evals, result, log,
          replay, result2, scoresFile, printed, env>>

(* ------------------------------ bounds -------------------------------- *)

MaxCorpus == 3

MaxPred == 1

MaxTime == 2

MaxValue == 2

MaxShard == 2

MaxIntervals == 2

(* ------------------------------ helpers ------------------------------- *)

RECURSIVE SumSeq(_)
SumSeq(s) == IF Len(s) = 0 THEN 0 ELSE Head(s) + SumSeq(Tail(s))

RECURSIVE SetToSeq(_)
\* the elements of a finite set of integers in increasing order (sorted())
SetToSeq(S) ==
    IF S = {} THEN <<>>
    ELSE LET m == CHOOSE x \in S : \A y \in S : x <= y
         IN <<m>> \o SetToSeq(S \ {m})

\* statistics.mean of a list of numbers, kept exact as sum over count;
\* statistics.mean([]) raises StatisticsError
Mean(xs) == [num |-> SumSeq(xs), den |-> Len(xs)]

NoMetrics == [f \in {} |-> 0]

\* args is None (from_logdir of a text scorer)
NoArgs == [given |-> FALSE, start_index |-> 0, end_index |-> 0]

NoScorer == [start_index |-> 0, end_index |-> 0, instances |-> NoMetrics,
             order |-> <<>>, kind |-> "none", args |-> NoArgs]

NoResult == [kind |-> "none"]

(* --------------------- the corpus and an Instance ---------------------- *)

RefWord == <<"r0", "r1", "r2", "r3", "r4", "r5">>

\* dataloader[index]: the source (by its length) and the target of a sentence
Entry(i) == [source_length |-> (i % 2) + 2,
             target |-> <<RefWord[i + 1]>> \o (IF i % 2 = 1 THEN <<"x">> ELSE <<>>)]

Corpus(n) == [k \in 1..n |-> Entry(k - 1)]

\* delays an emitted unit can carry (non-decreasing along a prediction)
Delays == {1, 2}

\* eval_all_latency(delays, src_len, tgt_len): the AL, AP and DAL of one
\* sentence, by integer stand-ins that depend on the three arguments
EvalAllLatency(delays, src_len, tgt_len) ==
    [AL  |-> SumSeq(delays) + src_len,
     AP  |-> SumSeq(delays),
     DAL |-> SumSeq(delays) + tgt_len]

\* instance_class(i, dataloader, args): a fresh instance
NewInstance(i, dl) ==
    [index |-> i,
     reference |-> dl[i + 1].target,
     source_length |-> dl[i + 1].source_length,
     prediction |-> <<>>,
     delays |-> <<>>,
     finish_prediction |-> FALSE,
     metrics |-> NoMetrics]

\* Instance.sentence_level_eval(): terminal scoring of the prediction as it is
SentenceLevelEval(inst) ==
    [inst EXCEPT !.finish_prediction = TRUE,
                 !.metrics = [f \in (DOMAIN inst.metrics) \cup {"latency"} |->
                                IF f = "latency"
                                THEN EvalAllLatency(inst.delays, inst.source_length,
                                                    Len(inst.reference) + 1)
                                ELSE inst.metrics[f]]]

\* Instance.receive_prediction: one more unit, or the end of the sentence
ReceiveWord(inst, w, d) ==
    [inst EXCEPT !.prediction = Append(@, w), !.delays = Append(@, d)]

\* Instance.summarize() / to_json: one line of instances.log
ToJson(inst) ==
    [index |-> inst.index,
     prediction |-> inst.prediction,
     delays |-> inst.delays,
     reference |-> inst.reference,
     source_length |-> inst.source_length,
     metric |-> inst.metrics,
     finished |-> inst.finish_prediction]

\* Instance.from_json / LogInstance(info): the instance of one log line
FromJson(line) ==
    [index |-> line.index,
     reference |-> line.reference,
     source_length |-> line.source_length,
     prediction |-> line.prediction,
     delays |-> line.delays,
     finish_prediction |-> line.finished,
     metrics |-> line.metric]

(* ------------------------ SentenceLevelScorer -------------------------- *)

\* SentenceLevelScorer.__len__: the number the method returns
DunderLen(s) == s.end_index - s.start_index

\* len(self), as get_info and get_translation_list of the speech scorer call
\* it: the built-in rejects a negative __len__ with ValueError
ScorerLen(s) ==
    IF DunderLen(s) < 0 THEN [kind |-> "ValueError", value |-> 0]
    ELSE [kind |-> "int", value |-> DunderLen(s)]

\* SentenceLevelScorer.get_indices: range(start_index, end_index), in order
GetIndices(s) == [k \in 1..(s.end_index - s.start_index) |-> s.start_index + k - 1]

IndexSet(s) == {i \in s.start_index..(s.end_index - 1) : TRUE}

\* SentenceLevelScorer.reset: a warning when the store is populated, then a
\* new instance under every index of the shard (other keys are left alone)
ResetWarnings(s) ==
    IF Cardinality(DOMAIN s.instances) > 0
    THEN <<[text |-> "Resetting scorer", ids |-> <<>>]>> ELSE <<>>

\* the exception of reset(): a scorer built without args (from_logdir of a
\* text scorer) has no instance_class to fill the first index with
ResetRaises(s) ==
    IF ~s.args.given /\ IndexSet(s) # {} THEN "AttributeError" ELSE "none"

ResetStore(s, dl) ==
    [s EXCEPT !.instances = [i \in (DOMAIN s.instances) \cup IndexSet(s) |->
                                IF i \in IndexSet(s) THEN NewInstance(i, dl)
                                ELSE s.instances[i]],
              !.order = s.order \o SelectSeq(GetIndices(s),
                                    LAMBDA i : i \notin DOMAIN s.instances)]

\* a variant that also takes end_index = 0 for "through the end of the corpus"
NewScorer_EndNotPositive(dl, start, end, doReset) ==
    LET s0 == [start_index |-> start,
               end_index |-> IF end <= 0 THEN Len(dl) ELSE end,
               instances |-> NoMetrics,
               order |-> <<>>,
               kind |-> "text",
               args |-> [given |-> TRUE, start_index |-> start, end_index |-> end]]
    IN IF doReset THEN ResetStore(s0, dl) ELSE s0

\* SentenceLevelScorer.__init__
NewScorer(dl, start, end, doReset) ==
    LET s0 == [start_index |-> start,
               end_index |-> IF end < 0 THEN Len(dl) ELSE end,
               instances |-> NoMetrics,
               order |-> <<>>,
               kind |-> "text",
               args |-> [given |-> TRUE, start_index |-> start, end_index |-> end]]
    IN IF doReset THEN ResetStore(s0, dl) ELSE s0

\* SentenceLevelScorer.get_reference_list
GetReferenceList(s) == [k \in DOMAIN GetIndices(s) |-> s.instances[GetIndices(s)[k]].reference]

\* sacrebleu.corpus_bleu(hypotheses, [references]).score: a function of the
\* two ordered lists, kept as the pair it is computed from
CorpusBleu(hyps, refs) == [hyps |-> hyps, refs |-> refs]

\* common_keys of get_latency_score: the families every instance has
CommonKeys(instances) ==
    {f \in UNION {DOMAIN instances[i].metrics : i \in DOMAIN instances} :
        \A i \in DOMAIN instances : f \in DOMAIN instances[i].metrics}

FamilyValues(instances, order, family, metric) ==
    [k \in DOMAIN order |-> instances[order[k]].metrics[family][metric]]

LatencyKeys(common) ==
    {"AL", "AP", "DAL"}
    \cup (IF "latency_ca" \in common THEN {"AL_CA", "AP_CA", "DAL_CA"} ELSE {})
    \cup (IF "latency_text_w_time" \in common
          THEN {"AL (Time in ms)", "AP (Time in ms)", "DAL (Time in ms)"} ELSE {})

KeyFamily(key) ==
    IF key \in {"AL", "AP", "DAL"} THEN "latency"
    ELSE IF key \in {"AL_CA", "AP_CA", "DAL_CA"} THEN "latency_ca"
    ELSE "latency_text_w_time"

KeyMetric(key) ==
    IF key \in {"AL", "AL_CA", "AL (Time in ms)"} THEN "AL"
    ELSE IF key \in {"AP", "AP_CA", "AP (Time in ms)"} THEN "AP"
    ELSE "DAL"

\* a variant that averages a family over the instances that happen to have it
GetLatencyScore_PartialAverage(instances, order) ==
    IF DOMAIN instances = {}
    THEN [kind |-> "TypeError"]
    ELSE IF \E i \in DOMAIN instances : "latency" \notin DOMAIN instances[i].metrics
    THEN [kind |-> "KeyError"]
    ELSE [kind |-> "report",
          report |-> [key \in LatencyKeys(UNION {DOMAIN instances[i].metrics :
                                                    i \in DOMAIN instances}) |->
                        Mean(FamilyValues(instances,
                                 SelectSeq(order, LAMBDA i :
                                     KeyFamily(key) \in DOMAIN instances[i].metrics),
                                 KeyFamily(key), KeyMetric(key)))]]

\* SentenceLevelScorer.get_latency_score
GetLatencyScore(instances, order) ==
    IF DOMAIN instances = {}
    THEN [kind |-> "TypeError"]       \* reduce() of an empty sequence
    ELSE IF \E i \in DOMAIN instances : "latency" \notin DOMAIN instances[i].metrics
    THEN [kind |-> "KeyError"]        \* seg.metrics["latency"]
    ELSE [kind |-> "report",
          report |-> [key \in LatencyKeys(CommonKeys(instances)) |->
                        Mean(FamilyValues(instances, order, KeyFamily(key), KeyMetric(key)))]]

(* ---------------------- SentenceLevelTextScorer ------------------------ *)

Occurrences(seq, x) == Len(SelectSeq(seq, LAMBDA y : y = x))

InSeq(seq, x) == \E k \in DOMAIN seq : seq[k] = x

\* not_finish_write_id of get_translation_list
NotFinishWriteId(s) ==
    SelectSeq(GetIndices(s), LAMBDA i : ~s.instances[i].finish_prediction)

\* the body of get_translation_list once not_finish_write_id is known
TranslationListFor(s, not_finish_write_id) ==
    IF \E i \in IndexSet(s) : i \notin DOMAIN s.instances
    THEN [raised |-> "KeyError", translations |-> <<>>, instances |-> s.instances,
          warnings |-> <<>>, evals |-> [i \in DOMAIN s.instances |-> 0]]
    ELSE
      LET empty_hypo_id ==
              SelectSeq(GetIndices(s), LAMBDA i : Len(s.instances[i].prediction) = 0)
          after == [i \in DOMAIN s.instances |->
                      IF InSeq(not_finish_write_id, i)
                      THEN SentenceLevelEval(s.instances[i]) ELSE s.instances[i]]
      IN [raised |-> "none",
          translations |-> [k \in DOMAIN GetIndices(s) |-> after[GetIndices(s)[k]].prediction],
          instances |-> after,
          warnings |->
              (IF Len(not_finish_write_id) > 0
               THEN <<[text |-> "Warning: these hypothesis don't have EOS in predictions",
                       ids |-> <<>>],
                      [text |-> "ids", ids |-> not_finish_write_id]>>
               ELSE <<>>)
              \o
              (IF Len(empty_hypo_id) > 0
               THEN <<[text |-> "Warning: these hypothesis are empty", ids |-> <<>>],
                      [text |-> "ids", ids |-> empty_hypo_id]>>
               ELSE <<>>),
          evals |-> [i \in DOMAIN s.instances |-> Occurrences(not_finish_write_id, i)]]

\* a variant that leaves the hypotheses it had to force out of the list
GetTranslationList_DropForced(s) ==
    LET r == TranslationListFor(s, NotFinishWriteId(s))
    IN IF r.raised # "none" THEN r
       ELSE [r EXCEPT !.translations =
                LET kept == SelectSeq(GetIndices(s),
                                      LAMBDA i : s.instances[i].finish_prediction)
                IN [k \in DOMAIN kept |-> r.instances[kept[k]].prediction]]

\* SentenceLevelTextScorer.get_translation_list
GetTranslationList(s) == TranslationListFor(s, NotFinishWriteId(s))

\* SentenceLevelScorer.score on a text scorer: quality first, then latency
Score(s) ==
    LET tl == GetTranslationList(s)
        s2 == [s EXCEPT !.instances = tl.instances]
        lat == GetLatencyScore(s2.instances, s2.order)
    IN [scorer |-> s2,
        warnings |-> tl.warnings,
        evals |-> tl.evals,
        outcome |->
            IF tl.raised # "none" THEN [kind |-> tl.raised]
            ELSE IF lat.kind # "report" THEN [kind |-> lat.kind]
            ELSE [kind |-> "report",
                  Quality |-> [BLEU |-> CorpusBleu(tl.translations, GetReferenceList(s2))],
                  Latency |-> lat.report]]

(* ----------------------- replay: from_logdir --------------------------- *)

LogIndices(lines) == {lines[k].index : k \in DOMAIN lines}

\* the line a dict keeps for a key assigned once per line: the last one
LastLine(lines, i) ==
    lines[CHOOSE k \in DOMAIN lines :
            /\ lines[k].index = i
            /\ \A j \in DOMAIN lines : lines[j].index = i => j <= k]

\* the keys of the dict in insertion order: by first occurrence
DictOrder(lines) ==
    LET first == SelectSeq([k \in DOMAIN lines |-> k],
                           LAMBDA k : \A j \in 1..(k - 1) : lines[j].index # lines[k].index)
    IN [k \in DOMAIN first |-> lines[first[k]].index]

\* SentenceLevelTextScorer.from_logdir
TextFromLogdir(lines) ==
    [start_index |-> 0,
     end_index |-> Cardinality(LogIndices(lines)),
     instances |-> [i \in LogIndices(lines) |-> FromJson(LastLine(lines, i))],
     order |-> DictOrder(lines),
     kind |-> "text",
     args |-> NoArgs]

\* SentenceLevelSpeechScorer.from_logdir
SpeechFromLogdir(lines) ==
    [start_index |-> 0,
     end_index |-> Len(lines),
     instances |-> [i \in LogIndices(lines) |-> FromJson(LastLine(lines, i))],
     order |-> DictOrder(lines),
     kind |-> "speech",
     args |-> [given |-> TRUE, start_index |-> 0, end_index |-> Len(lines)]]

\* the evaluator's log: one line per instance of the store, in store order
WriteLines(s) == [k \in DOMAIN s.order |-> ToJson(s.instances[s.order[k]])]

(* ------------------- the life of a live text scorer -------------------- *)

NoEnv == [wavs |-> FALSE, ust_common |-> FALSE, mfa |-> "missing", align |-> NoMetrics,
          listing |-> <<>>]

Init ==
    /\ pc = "init"
    /\ dataloader \in {Corpus(n) : n \in 0..MaxCorpus}
    /\ scorer = NoScorer
    /\ before = NoMetrics
    /\ lastOp = "none"
    /\ warnings = <<>>
    /\ evals = NoMetrics
    /\ result = NoResult
    /\ log = <<>>
    /\ replay = NoScorer
    /\ result2 = NoResult
    /\ scoresFile = [state |-> "absent"]
    /\ printed = NoResult
    /\ env = NoEnv

\* build_evaluator: SentenceLevelTextScorer(dataloader, args[, reset])
Construct ==
    /\ pc = "init"
    /\ \E start \in 0..Len(dataloader), end \in -1..Len(dataloader) :
          /\ scorer' = NewScorer(dataloader, start, end, TRUE)
          /\ warnings' = ResetWarnings(NewScorer(dataloader, start, end, FALSE))
    /\ before' = NoMetrics
    /\ lastOp' = "construct"
    /\ pc' = "live"
    /\ UNCHANGED <<dataloader, evals, result, log, replay, result2,
                   scoresFile, printed, env>>

\* scorer.reset()
Reset ==
    /\ pc = "live"
    /\ before' = scorer.instances
    /\ warnings' = ResetWarnings(scorer)
    /\ scorer' = ResetStore(scorer, dataloader)
    /\ lastOp' = "reset"
    /\ UNCHANGED <<pc, dataloader, evals, result, log, replay, result2,
                   scoresFile, printed, env>>

LastDelay(inst) == IF Len(inst.delays) = 0 THEN 0 ELSE inst.delays[Len(inst.delays)]

\* the agent writes one more word of sentence i
ReceivePrediction ==
    /\ pc = "live"
    /\ \E i \in DOMAIN scorer.instances, d \in Delays :
          /\ ~scorer.instances[i].finish_prediction
          /\ Len(scorer.instances[i].prediction) < MaxPred
          /\ d >= LastDelay(scorer.instances[i])
          /\ scorer' = [scorer EXCEPT !.instances[i] = ReceiveWord(@, "w", d)]
    /\ lastOp' = "simulate"
    /\ warnings' = <<>>
    /\ before' = NoMetrics
    /\ UNCHANGED <<pc, dataloader, evals, result, log, replay, result2,
                   scoresFile, printed, env>>

\* the agent ends sentence i: the instance is complete and scored
FinishPrediction ==
    /\ pc = "live"
    /\ \E i \in DOMAIN scorer.instances :
          /\ ~scorer.instances[i].finish_prediction
          /\ scorer' = [scorer EXCEPT !.instances[i] = SentenceLevelEval(@)]
    /\ lastOp' = "simulate"
    /\ warnings' = <<>>
    /\ before' = NoMetrics
    /\ UNCHANGED <<pc, dataloader, evals, result, log, replay, result2,
                   scoresFile, printed, env>>

\* scorer.score() on the live scorer
ScoreLive ==
    /\ pc = "live"
    /\ LET r == Score(scorer)
       IN /\ scorer' = r.scorer
          /\ warnings' = r.warnings
          /\ evals' = r.evals
          /\ result' = r.outcome
    /\ before' = scorer.instances
    /\ lastOp' = "score"
    /\ pc' = "scored"
    /\ UNCHANGED <<dataloader, log, replay, result2, scoresFile, printed, env>>

\* the evaluator writes instances.log
WriteLog ==
    /\ pc \in {"live", "scored"}
    /\ log' = WriteLines(scorer)
    /\ pc' = "logged"
    /\ UNCHANGED <<dataloader, scorer, before, lastOp, warnings, evals, result,
                   replay, result2, scoresFile, printed, env>>

\* SentenceLevelTextScorer.from_logdir(logdir)
Replay ==
    /\ pc = "logged"
    /\ replay' = TextFromLogdir(log)
    /\ pc' = "replayed"
    /\ UNCHANGED <<dataloader, scorer, before, lastOp, warnings, evals, result,
                   log, result2, scoresFile, printed, env>>

\* reset() on the rebuilt scorer
ResetReplay ==
    /\ pc = "replayed"
    /\ before' = replay.instances
    /\ warnings' = ResetWarnings(replay)
    /\ replay' = IF ResetRaises(replay) = "none" THEN ResetStore(replay, dataloader)
                 ELSE replay
    /\ result2' = [kind |-> ResetRaises(replay)]
    /\ evals' = [i \in DOMAIN replay.instances |-> 0]
    /\ lastOp' = "reset"
    /\ pc' = "replay_reset"
    /\ UNCHANGED <<dataloader, scorer, result, log, scoresFile, printed, env>>

\* score() on the rebuilt scorer
ScoreReplay ==
    /\ pc \in {"replayed", "replay_reset"}
    /\ LET r == Score(replay)
       IN /\ replay' = r.scorer
          /\ warnings' = r.warnings
          /\ evals' = r.evals
          /\ result2' = r.outcome
    /\ before' = replay.instances
    /\ lastOp' = "score"
    /\ pc' = "done"
    /\ UNCHANGED <<dataloader, scorer, result, log, scoresFile, printed, env>>

Next ==
    \/ Construct
    \/ Reset
    \/ ReceivePrediction
    \/ FinishPrediction
    \/ ScoreLive
    \/ WriteLog
    \/ Replay
    \/ ResetReplay
    \/ ScoreReplay

Spec == Init /\ [][Next]_vars

(* ------------------ properties of the live text scorer ----------------- *)

IsFresh(inst, i) ==
    /\ inst.index = i
    /\ inst.prediction = <<>>
    /\ inst.delays = <<>>
    /\ ~inst.finish_prediction
    /\ DOMAIN inst.metrics = {}

ShardIndices == {i \in 0..Len(dataloader) : scorer.start_index <= i /\ i < scorer.end_index}

ShardContract ==
        /\ scorer.start_index = scorer.args.start_index
        /\ scorer.args.end_index < 0 => scorer.end_index = Len(dataloader)
        /\ scorer.args.end_index >= 0 => scorer.end_index = scorer.args.end_index
        /\ ScorerLen(scorer).kind = "int"
        /\ ScorerLen(scorer).value = scorer.end_index - scorer.start_index
        /\ {GetIndices(scorer)[k] : k \in DOMAIN GetIndices(scorer)} = ShardIndices
        /\ \A j, k \in DOMAIN GetIndices(scorer) :
              j < k => GetIndices(scorer)[j] < GetIndices(scorer)[k]
        /\ DOMAIN scorer.instances = ShardIndices
        /\ \A i \in DOMAIN scorer.instances : scorer.instances[i].index = i

\* C4 as stated: a constructed scorer resolves a negative end_index to the
\* corpus length, len(scorer) is end_index - start_index, get_indices yields
\* start_index .. end_index-1 in increasing order, and the store holds one
\* instance per such index and no other.
C4_AnyEndIndex == lastOp = "construct" => ShardContract

\* C4 amended: the same for an end_index that is negative or not below
\* start_index.
C4_ShardOfConstructedScorer ==
    (/\ lastOp = "construct"
     /\ (scorer.args.end_index < 0 \/ scorer.args.end_index >= scorer.args.start_index))
    => ShardContract

C4_Witness ==
    /\ lastOp = "construct"
    /\ scorer.args.end_index < 0
    /\ scorer.start_index = 1
    /\ Cardinality(DOMAIN scorer.instances) = 2
    /\ ScorerLen(scorer) = [kind |-> "int", value |-> 2]

\* the scorer the last reset() acted on: the rebuilt one or the live one
ResetShard == IF pc = "replay_reset" THEN replay ELSE scorer

ResetOutcome == IF pc = "replay_reset" THEN result2.kind ELSE "none"

\* C8: after reset() (the one of the constructor included) the store holds
\* a fresh instance for each index of the shard and nothing else; reset() on
\* a populated store logs the warning and does not raise, on an empty store
\* it logs nothing.
C8_ResetLeavesFreshStore ==
    lastOp \in {"construct", "reset"} =>
        /\ ResetOutcome = "none"
        /\ DOMAIN ResetShard.instances = IndexSet(ResetShard)
        /\ \A i \in DOMAIN ResetShard.instances : IsFresh(ResetShard.instances[i], i)
        /\ DOMAIN before # {} =>
              warnings = <<[text |-> "Resetting scorer", ids |-> <<>>]>>
        /\ DOMAIN before = {} => warnings = <<>>

\* the indices the EOS warning of the last operation names
NamedUnfinished ==
    UNION {{warnings[k + 1].ids[j] : j \in DOMAIN warnings[k + 1].ids} :
             k \in {n \in 1..(Len(warnings) - 1) :
                      warnings[n].text =
                          "Warning: these hypothesis don't have EOS in predictions"}}

\* the scorer the last score() acted on and what the call returned: the
\* rebuilt scorer once it has been scored, the live one before
ScoredShard == IF pc = "done" THEN replay ELSE scorer

ScoredResult == IF pc = "done" THEN result2 ELSE result

ScoreCallContract ==
    /\ ScoredResult.kind = "report"
    /\ \A i \in DOMAIN before :
          /\ ~before[i].finish_prediction => (i \in NamedUnfinished /\ evals[i] = 1)
          /\ before[i].finish_prediction => (i \notin NamedUnfinished /\ evals[i] = 0)
    /\ Len(ScoredResult.Quality.BLEU.hyps) = Cardinality(IndexSet(ScoredShard))
    /\ \A k \in DOMAIN ScoredResult.Quality.BLEU.hyps :
          ScoredResult.Quality.BLEU.hyps[k] = before[ScoredShard.start_index + k - 1].prediction

\* C5: one score() call on a text shard, live or rebuilt, warns about and
\* evaluates once every unfinished instance, evaluates no finished one, does
\* not raise, and lists one translation per index in increasing order.
C5_ScoreAnyShard == lastOp = "score" => ScoreCallContract

\* C2 as stated: for a shard of completed instances, the scorer rebuilt from
\* its log has the same indices, the same instances and the same report.
C2_RoundTrip ==
    (/\ pc = "done"
     /\ \A i \in DOMAIN scorer.instances : scorer.instances[i].finish_prediction)
    => /\ IndexSet(replay) = IndexSet(scorer)
       /\ replay.instances = scorer.instances
       /\ result2 = Score(scorer).outcome

(* ---------------- get_latency_score on any metrics mapping ------------- *)

ExtraFamilies == {"latency_ca", "latency_text_w_time"}

FamilyBase(f) == IF f = "latency" THEN 0 ELSE IF f = "latency_ca" THEN 10 ELSE 20

\* the metrics mapping of a scored instance: "latency" and the extra
\* families it has, each with its AL, AP and DAL
ScoredMetrics(extra, v) ==
    [f \in {"latency"} \cup extra |->
        [AL |-> FamilyBase(f) + v, AP |-> FamilyBase(f) + v + 1, DAL |-> FamilyBase(f) + 2 * v]]

ScoredInstance(i, extra, v) ==
    [NewInstance(i, Corpus(MaxCorpus + 1)) EXCEPT !.finish_prediction = TRUE,
                                              !.metrics = ScoredMetrics(extra, v)]

InitLatency ==
    /\ pc = "scored_instances"
    /\ dataloader = Corpus(MaxCorpus + 1)
    /\ \E n \in 1..MaxCorpus :
          \E extra \in [0..(n - 1) -> SUBSET ExtraFamilies], v \in [0..(n - 1) -> 1..MaxValue] :
             scorer = [start_index |-> 0, end_index |-> n,
                       instances |-> [i \in 0..(n - 1) |-> ScoredInstance(i, extra[i], v[i])],
                       order |-> [k \in 1..n |-> k - 1],
                       kind |-> "text",
                       args |-> [given |-> TRUE, start_index |-> 0, end_index |-> n]]
    /\ before = NoMetrics
    /\ lastOp = "none"
    /\ warnings = <<>>
    /\ evals = NoMetrics
    /\ result = NoResult
    /\ log = <<>>
    /\ replay = NoScorer
    /\ result2 = NoResult
    /\ scoresFile = [state |-> "absent"]
    /\ printed = NoResult
    /\ env = NoEnv

\* scorer.get_latency_score()
LatencyCall ==
    /\ pc = "scored_instances"
    /\ result' = GetLatencyScore(scorer.instances, scorer.order)
    /\ lastOp' = "get_latency_score"
    /\ pc' = "done"
    /\ UNCHANGED <<dataloader, scorer, before, warnings, evals, log, replay, result2,
                   scoresFile, printed, env>>

NextLatency == LatencyCall

SpecLatency == InitLatency /\ [][NextLatency]_vars

FamilyKeys(f) ==
    IF f = "latency_ca" THEN {"AL_CA", "AP_CA", "DAL_CA"}
    ELSE {"AL (Time in ms)", "AP (Time in ms)", "DAL (Time in ms)"}

RECURSIVE SumOver(_, _, _, _)
SumOver(instances, S, f, m) ==
    IF S = {} THEN 0
    ELSE LET i == CHOOSE x \in S : TRUE
         IN instances[i].metrics[f][m] + SumOver(instances, S \ {i}, f, m)

\* C1: the report has the keys of an extra family exactly when every
\* instance of the shard has that family; when one instance lacks it none of
\* its keys appear; AL, AP and DAL are always there, each the mean over all
\* instances.
C1_OnlyCommonFamilies ==
    lastOp = "get_latency_score" =>
        /\ result.kind = "report"
        /\ \A f \in ExtraFamilies :
              /\ (FamilyKeys(f) \subseteq DOMAIN result.report)
                    <=> (\A i \in DOMAIN scorer.instances : f \in DOMAIN scorer.instances[i].metrics)
              /\ (\E i \in DOMAIN scorer.instances : f \notin DOMAIN scorer.instances[i].metrics)
                    => FamilyKeys(f) \cap DOMAIN result.report = {}
              /\ \A key \in FamilyKeys(f) \cap DOMAIN result.report :
                    result.report[key] =
                        [num |-> SumOver(scorer.instances, DOMAIN scorer.instances, f,
                                         KeyMetric(key)),
                         den |-> Cardinality(DOMAIN scorer.instances)]
        /\ \A m \in {"AL", "AP", "DAL"} :
              /\ m \in DOMAIN result.report
              /\ result.report[m] =
                    [num |-> SumOver(scorer.instances, DOMAIN scorer.instances, "latency", m),
                     den |-> Cardinality(DOMAIN scorer.instances)]

C1_Witness ==
    /\ lastOp = "get_latency_score"
    /\ Cardinality(DOMAIN scorer.instances) = 3
    /\ "latency_ca" \notin DOMAIN scorer.instances[1].metrics
    /\ "latency_ca" \in DOMAIN scorer.instances[0].metrics
    /\ "latency_ca" \in DOMAIN scorer.instances[2].metrics
    /\ \A i \in DOMAIN scorer.instances : "latency_text_w_time" \in DOMAIN scorer.instances[i].metrics
    /\ DOMAIN result.report = {"AL", "AP", "DAL"} \cup FamilyKeys("latency_text_w_time")

(* --------------------- SentenceLevelSpeechScorer ----------------------- *)

Conventions == {"BOW", "EOW", "COW"}

NonEmptyIntervals(intervals) == SelectSeq(intervals, LAMBDA iv : iv.mark # "")

\* the three delay lists of one TextGrid built from every interval, silent or not
Realign_KeepSilence(target_offset, intervals) ==
    IF intervals = <<>> THEN [c \in {} |-> <<>>]
    ELSE [c \in Conventions |->
            [k \in DOMAIN intervals |->
                IF c = "BOW" THEN target_offset + 1000 * intervals[k].minTime
                ELSE IF c = "EOW" THEN target_offset + 1000 * intervals[k].maxTime
                ELSE target_offset
                     + ((intervals[k].maxTime + intervals[k].minTime) * 1000) \div 2]]

\* delays[index] of get_latency_score: the BOW, EOW and COW lists of one
\* TextGrid; a list exists once a labelled interval has been appended to it
Realign(target_offset, intervals) ==
    LET words == NonEmptyIntervals(intervals)
    IN IF words = <<>> THEN [c \in {} |-> <<>>]
       ELSE [c \in Conventions |->
               [k \in DOMAIN words |->
                   IF c = "BOW" THEN target_offset + 1000 * words[k].minTime
                   ELSE IF c = "EOW" THEN target_offset + 1000 * words[k].maxTime
                   ELSE target_offset
                        + ((words[k].maxTime + words[k].minTime) * 1000) \div 2]]

\* SentenceLevelSpeechScorer.get_reference_list (the store is not empty)
MissingIndex(s) == \E i \in IndexSet(s) : i \notin DOMAIN s.instances

\* the exception of results[key].append(eval_all_latency(...)) for one index:
\* get_source_lengths()[index], then get_reference_list(), then [index]
LookupError(s, index) ==
    IF index >= Len(s.order) THEN "IndexError"
    ELSE IF MissingIndex(s) THEN "KeyError"
    ELSE IF index >= Len(GetIndices(s)) THEN "IndexError"
    ELSE "none"

\* the sequences that list every element of a finite set once
Listings(S) ==
    {l \in [1..Cardinality(S) -> S] : \A j, k \in DOMAIN l : j # k => l[j] # l[k]}

\* the exception of self.instances[index].summarize()["delays"][0][1] for the
\* TextGrid of one index: no such instance, or an instance without delays
FileError(s, index) ==
    IF index \notin DOMAIN s.instances THEN "KeyError"
    ELSE IF Len(s.instances[index].delays) = 0 THEN "IndexError"
    ELSE "none"

\* SentenceLevelSpeechScorer.get_latency_score; e.listing is the order in
\* which alignment_dir.iterdir() yields the TextGrid files, and the first
\* file that fails ends the call
SpeechLatencyScore(s, e) ==
    LET files == DOMAIN e.align
        none == [kind |-> "none", delays |-> NoMetrics]
        broken == SelectSeq(e.listing, LAMBDA index : FileError(s, index) # "none")
    IN IF e.mfa = "missing" THEN [none EXCEPT !.kind = "SystemExit"]
       ELSE IF e.mfa = "failed" THEN [none EXCEPT !.kind = "CalledProcessError"]
       ELSE IF broken # <<>>
       THEN [none EXCEPT !.kind = FileError(s, broken[1])]
       ELSE
         LET delays == [index \in files |->
                          Realign(s.instances[index].delays[1], e.align[index])]
             sorted == SetToSeq({index \in files : DOMAIN delays[index] # {}})
             failing == SelectSeq(sorted, LAMBDA index : LookupError(s, index) # "none")
         IN IF failing # <<>>
            THEN [kind |-> LookupError(s, failing[1]), delays |-> delays]
            ELSE [kind |-> "report",
                  delays |-> delays,
                  report |->
                    [c \in (IF sorted = <<>> THEN {} ELSE Conventions) |->
                      [m \in {"AL", "AP", "DAL"} |->
                        Mean([k \in DOMAIN sorted |->
                                EvalAllLatency(
                                    delays[sorted[k]][c],
                                    s.instances[s.order[sorted[k] + 1]].source_length,
                                    Len(GetReferenceList(s)[sorted[k] + 1]))[m]])]]]

(* ------------- speech realignment of one instance's TextGrid ----------- *)

Marks == {"", "w"}

\* the interval tier of a TextGrid: contiguous intervals over increasing
\* boundaries (whole seconds), each with a label
Tiers ==
    UNION {{[k \in 1..n |-> [mark |-> marks[k], minTime |-> b[k], maxTime |-> b[k + 1]]] :
              marks \in [1..n -> Marks],
              b \in {x \in [1..(n + 1) -> 0..MaxTime] : \A k \in 1..n : x[k] <= x[k + 1]}} :
           n \in 0..MaxIntervals}

SpeechInstance(i, delays) ==
    [NewInstance(i, Corpus(MaxCorpus + 1)) EXCEPT !.finish_prediction = TRUE,
                                              !.delays = delays]

SpeechScorer(start, n, delaysOf) ==
    [start_index |-> start, end_index |-> start + n,
     instances |-> [i \in start..(start + n - 1) |-> SpeechInstance(i, delaysOf[i])],
     order |-> [k \in 1..n |-> start + k - 1],
     kind |-> "speech",
     args |-> [given |-> TRUE, start_index |-> start, end_index |-> start + n]]

InitRealign ==
    /\ pc = "aligned"
    /\ dataloader = Corpus(MaxCorpus + 1)
    /\ \E d \in Delays : scorer = SpeechScorer(0, 1, [i \in {0} |-> <<d>>])
    /\ \E tier \in Tiers :
          env = [wavs |-> TRUE, ust_common |-> FALSE, mfa |-> "ok",
                 align |-> [i \in {0} |-> tier], listing |-> <<0>>]
    /\ before = NoMetrics
    /\ lastOp = "none"
    /\ warnings = <<>>
    /\ evals = NoMetrics
    /\ result = NoResult
    /\ log = <<>>
    /\ replay = NoScorer
    /\ result2 = NoResult
    /\ scoresFile = [state |-> "absent"]
    /\ printed = NoResult

\* scorer.get_latency_score() of a speech scorer
SpeechLatencyCall ==
    /\ pc = "aligned"
    /\ result' = SpeechLatencyScore(scorer, env)
    /\ lastOp' = "speech_latency"
    /\ pc' = "done"
    /\ UNCHANGED <<dataloader, scorer, before, warnings, evals, log, replay, result2,
                   scoresFile, printed, env>>

NextRealign == SpeechLatencyCall

SpecRealign == InitRealign /\ [][NextRealign]_vars

\* C9: per TextGrid, unlabelled intervals contribute nothing, and the k-th
\* labelled interval contributes offset + 1000*minTime to BOW, offset +
\* 1000*maxTime to EOW and offset + 500*(minTime+maxTime) to COW; the three
\* lists have the length of the labelled intervals and BOW <= COW <= EOW.
C9_RealignedDelays ==
    lastOp = "speech_latency" =>
        \A index \in DOMAIN result.delays :
            LET offset == scorer.instances[index].delays[1]
                tier == env.align[index]
                labelled == {k \in DOMAIN tier : tier[k].mark # ""}
                nth(k) == Cardinality({j \in labelled : j <= k})
                d == result.delays[index]
            IN /\ labelled = {} => DOMAIN d = {}
               /\ labelled # {} =>
                    /\ DOMAIN d = Conventions
                    /\ \A c \in Conventions : Len(d[c]) = Cardinality(labelled)
                    /\ \A k \in labelled :
                          /\ d["BOW"][nth(k)] = offset + 1000 * tier[k].minTime
                          /\ d["EOW"][nth(k)] = offset + 1000 * tier[k].maxTime
                          /\ d["COW"][nth(k)] = offset + 500 * (tier[k].minTime + tier[k].maxTime)
                          /\ tier[k].minTime <= tier[k].maxTime =>
                                /\ d["BOW"][nth(k)] <= d["COW"][nth(k)]
                                /\ d["COW"][nth(k)] <= d["EOW"][nth(k)]

C9_Witness ==
    /\ pc = "done"
    /\ lastOp = "speech_latency"
    /\ Len(env.align[0]) = 2
    /\ env.align[0][1].mark = ""
    /\ env.align[0][2].mark = "w"
    /\ env.align[0][2].minTime < env.align[0][2].maxTime
    /\ Len(result.delays[0]["COW"]) = 1

(* ------------- speech latency of a shard with its align/ dir ----------- *)

\* the TextGrid the aligner writes for sentence i, when it writes one
TierOf(i) ==
    IF i % 2 = 0
    THEN <<[mark |-> "", minTime |-> 0, maxTime |-> 1],
           [mark |-> "w", minTime |-> 1, maxTime |-> 2]>>
    ELSE <<[mark |-> "w", minTime |-> 0, maxTime |-> 1],
           [mark |-> "w", minTime |-> 1, maxTime |-> 3]>>

InitSpeech ==
    /\ pc = "aligned"
    /\ dataloader = Corpus(MaxCorpus + 1)
    /\ \E start \in 0..1, n \in 1..MaxCorpus :
          /\ \E delaysOf \in [start..(start + n - 1) -> {<<>>} \cup {<<d>> : d \in Delays}] :
                scorer = SpeechScorer(start, n, delaysOf)
          /\ \E files \in SUBSET (start..(start + n)), tool \in {"ok", "missing", "failed"} :
                \E listing \in Listings(files) :
                   env = [wavs |-> TRUE, ust_common |-> FALSE, mfa |-> tool,
                          align |-> [i \in files |-> TierOf(i)], listing |-> listing]
    /\ before = NoMetrics
    /\ lastOp = "none"
    /\ warnings = <<>>
    /\ evals = NoMetrics
    /\ result = NoResult
    /\ log = <<>>
    /\ replay = NoScorer
    /\ result2 = NoResult
    /\ scoresFile = [state |-> "absent"]
    /\ printed = NoResult

NextSpeech == SpeechLatencyCall

SpecSpeech == InitSpeech /\ [][NextSpeech]_vars

\* C6: when the aligner has run and some instance of the shard has no
\* TextGrid, get_latency_score returns no latency report.
C6_MissingArtifactAborts ==
    (/\ lastOp = "speech_latency"
     /\ env.mfa = "ok"
     /\ \E i \in DOMAIN scorer.instances : i \notin DOMAIN env.align)
    => result.kind # "report"

(* ------------------- score() of a speech scorer ------------------------ *)

\* str.lower() of a transcription
Lower(w) == IF w = "HELLO" THEN "hello" ELSE IF w = "WORLD" THEN "world" ELSE w

\* SentenceLevelSpeechScorer.get_translation_list: without ust_common one
\* empty hypothesis per sentence of the shard, else the ASR transcriptions
\* in the order of their ids, lower-cased
SpeechTranslationList(s, e) ==
    IF ~e.ust_common
    THEN [raised |-> IF ScorerLen(s).kind = "int" THEN "none" ELSE ScorerLen(s).kind,
          translations |-> [k \in 1..ScorerLen(s).value |-> ""],
          warnings |-> <<[text |-> "Beta feature: Evaluating speech output", ids |-> <<>>],
                         [text |-> "Please install ust_common.", ids |-> <<>>]>>]
    ELSE [raised |-> "none",
          translations |-> [k \in DOMAIN e.asr |-> Lower(e.asr[k])],
          warnings |-> <<[text |-> "Beta feature: Evaluating speech output", ids |-> <<>>]>>]

\* SentenceLevelSpeechScorer.get_reference_list: from the store, or from
\* instances.log when the store is empty
SpeechReferenceList(s, lines) ==
    IF Cardinality(DOMAIN s.instances) > 0
    THEN (IF MissingIndex(s) THEN [kind |-> "KeyError", refs |-> <<>>]
          ELSE [kind |-> "ok", refs |-> GetReferenceList(s)])
    ELSE [kind |-> "ok", refs |-> [k \in DOMAIN lines |-> lines[k].reference]]

\* SentenceLevelScorer.score on a speech scorer
SpeechScore(s, e, lines) ==
    LET tl == SpeechTranslationList(s, e)
        refs == SpeechReferenceList(s, lines)
        lat == SpeechLatencyScore(s, e)
    IN [scorer |-> s,
        warnings |-> tl.warnings,
        evals |-> [i \in DOMAIN s.instances |-> 0],
        outcome |->
            IF tl.raised # "none" THEN [kind |-> tl.raised]
            ELSE IF refs.kind # "ok" THEN [kind |-> refs.kind]
            ELSE IF lat.kind # "report" THEN [kind |-> lat.kind]
            ELSE [kind |-> "report",
                  Quality |-> [BLEU |-> CorpusBleu(tl.translations, refs.refs)],
                  Latency |-> lat.report]]

ScoreOf(s, e, lines) == IF s.kind = "speech" THEN SpeechScore(s, e, lines) ELSE Score(s)

(* --------------------------- compute_score ----------------------------- *)

\* json.dumps(report, indent=4)
JsonDumps(report) == [indent |-> 4, text |-> report]

\* the lines a shard [start, start+n) leaves in its log: sentence i complete
\* or not, with the one word the agent wrote at delay d
ShardLine(i, word, d, complete) ==
    LET written == ReceiveWord(NewInstance(i, Corpus(MaxShard + 1)), word, d)
    IN ToJson(IF complete THEN SentenceLevelEval(written) ELSE written)

ShardRanges == {<<0, 0>>} \cup {r \in (0..MaxShard) \X (0..MaxShard) : r[1] < r[2]}

ShardLogsA ==
    UNION {{[k \in 1..(r[2] - r[1]) |-> ShardLine(r[1] + k - 1, "w", 1, done[r[1] + k - 1])] :
              done \in [r[1]..(r[2] - 1) -> BOOLEAN]} : r \in ShardRanges}

ShardLogsB ==
    {[k \in 1..(r[2] - r[1]) |-> ShardLine(r[1] + k - 1, "b", 2, TRUE)] : r \in ShardRanges}

InitReplay ==
    /\ pc = "start"
    /\ dataloader = <<>>
    /\ \E a \in ShardLogsA, b \in ShardLogsB :
          /\ log = a \o b
          /\ \/ env = NoEnv
             \/ \E asr \in BOOLEAN, tool \in {"ok", "missing"}, files \in SUBSET LogIndices(a \o b) :
                 \E listing \in Listings(files) :
                   env = [wavs |-> TRUE, ust_common |-> asr, mfa |-> tool,
                          align |-> [i \in files |-> TierOf(i)],
                          listing |-> listing,
                          asr |-> [k \in 1..Cardinality(LogIndices(a \o b)) |->
                                     IF k % 2 = 1 THEN "HELLO" ELSE "WORLD"]]
    /\ scoresFile \in {[state |-> "absent"], [state |-> "old"]}
    /\ scorer = NoScorer
    /\ before = NoMetrics
    /\ lastOp = "none"
    /\ warnings = <<>>
    /\ evals = NoMetrics
    /\ result = NoResult
    /\ replay = NoScorer
    /\ result2 = NoResult
    /\ printed = NoResult

\* compute_score: the wavs/ probe and from_logdir
BuildScorer ==
    /\ pc = "start"
    /\ replay' = IF env.wavs THEN SpeechFromLogdir(log) ELSE TextFromLogdir(log)
    /\ lastOp' = "from_logdir"
    /\ pc' = "built"
    /\ UNCHANGED <<dataloader, scorer, before, warnings, evals, result, log, result2,
                   scoresFile, printed, env>>

\* open(logdir / "scores", "w"): the file exists and is empty
OpenScores ==
    /\ pc = "built"
    /\ scoresFile' = [state |-> "empty"]
    /\ pc' = "opened"
    /\ UNCHANGED <<dataloader, scorer, before, lastOp, warnings, evals, result, log,
                   replay, result2, printed, env>>

\* the first scorer.score(), inside the with block; an exception leaves it
ScoreFirst ==
    /\ pc = "opened"
    /\ LET r == ScoreOf(replay, env, log)
       IN /\ replay' = r.scorer
          /\ result2' = r.outcome
          /\ warnings' = r.warnings
          /\ evals' = r.evals
          /\ pc' = IF r.outcome.kind = "report" THEN "scored" ELSE "raised"
    /\ before' = replay.instances
    /\ lastOp' = "score"
    /\ UNCHANGED <<dataloader, scorer, result, log, scoresFile, printed, env>>

\* f.writelines(json.dumps(...)) and the close of the with block
WriteScores ==
    /\ pc = "scored"
    /\ scoresFile' = [state |-> "written", content |-> JsonDumps(result2)]
    /\ pc' = "written"
    /\ UNCHANGED <<dataloader, scorer, before, lastOp, warnings, evals, result, log,
                   replay, result2, printed, env>>

\* the second scorer.score(), for print
ScoreSecond ==
    /\ pc = "written"
    /\ LET r == ScoreOf(replay, env, log)
       IN /\ replay' = r.scorer
          /\ result' = r.outcome
          /\ warnings' = r.warnings
          /\ evals' = r.evals
          /\ pc' = IF r.outcome.kind = "report" THEN "scored_again" ELSE "raised"
    /\ before' = replay.instances
    /\ lastOp' = "score_again"
    /\ UNCHANGED <<dataloader, scorer, log, result2, scoresFile, printed, env>>

\* print(json.dumps(...))
PrintScores ==
    /\ pc = "scored_again"
    /\ printed' = JsonDumps(result)
    /\ pc' = "done"
    /\ UNCHANGED <<dataloader, scorer, before, lastOp, warnings, evals, result, log,
                   replay, result2, scoresFile, env>>

\* the process dies between two steps of compute_score
Crash ==
    /\ pc \in {"start", "built", "opened", "scored", "written", "scored_again"}
    /\ pc' = "crashed"
    /\ UNCHANGED <<dataloader, scorer, before, lastOp, warnings, evals, result, log,
                   replay, result2, scoresFile, printed, env>>

NextReplay ==
    \/ BuildScorer
    \/ OpenScores
    \/ ScoreFirst
    \/ WriteScores
    \/ ScoreSecond
    \/ PrintScores
    \/ Crash

SpecReplay == InitReplay /\ [][NextReplay]_vars

HasDuplicateIndex(lines) == \E j, k \in DOMAIN lines : j < k /\ lines[j].index = lines[k].index

\* C3: replaying the union of two shard logs keeps every line when the index
\* sets are disjoint (store size = number of lines, every index scored), and
\* ends in the duplicate-index error, building no scorer, when an index
\* occurs twice.
C3_MergedReplay ==
    /\ (~HasDuplicateIndex(log) /\ replay.kind # "none") =>
          /\ Cardinality(DOMAIN replay.instances) = Len(log)
          /\ LogIndices(log) = DOMAIN replay.instances
          /\ (lastOp = "score" /\ replay.kind = "text" /\ log # <<>>) =>
                (result2.kind = "report" /\ Len(result2.Quality.BLEU.hyps) = Len(log))
    /\ HasDuplicateIndex(log) => replay.kind = "none"

\* C7: the file 'scores' is in its state from before the call or holds the
\* complete report, in every state compute_score passes through.
C7_ScoresFileAtomic == scoresFile.state \in {"absent", "old", "written"}

\* C10: the report compute_score prints is the report it wrote, and the
\* second score() of a rebuilt scorer ends as the first did.
C10_PrintedIsWritten ==
    /\ lastOp = "score_again" => result = result2
    /\ pc = "done" => (scoresFile.state = "written" /\ printed = scoresFile.content)

C10_Witness ==
    /\ pc = "done"
    /\ \E k \in DOMAIN log : ~log[k].finished
    /\ \E i \in DOMAIN replay.instances : replay.instances[i].finish_prediction
    /\ printed.text.kind = "report"

====
